---- MODULE Spec2Model ----
(***************************************************************************)
(* Model of jobs_clean.py: the two text normalisers (clean_text,           *)
(* clean_description) and the cleaning pipeline main().                    *)
(*                                                                         *)
(* A Python str is a sequence of characters; a character is a one-letter   *)
(* TLA+ string, except the few characters named below.  A cell value is a  *)
(* record [kind, chars, n]: kind "null" is pandas' missing value (NaN,     *)
(* None), "str" a Python str, "int" / "float" / "bool" the other scalars a *)
(* CSV cell can hold.                                                      *)
(***************************************************************************)
EXTENDS Integers, Sequences, FiniteSets, TLC

\* ------------------------------------------------------------ characters

\* U+00A0, the non-breaking space.
NBSP == "nbsp"
\* The line feed: a whitespace character other than the ASCII space.
LF == "lf"
\* A non-ASCII letter (U+00E9): matches neither A-Za-z nor the punctuation.
EACUTE == "eacute"

\* Python's \s on a str pattern, and the characters str.strip() removes:
\* Unicode whitespace, U+00A0 included.
IsSpace(c) == c \in {" ", LF, NBSP}

AsciiLetters ==
    {"a","b","c","d","e","f","g","h","i","j","k","l","m",
     "n","o","p","q","r","s","t","u","v","w","x","y","z",
     "A","B","C","D","E","F","G","H","I","J","K","L","M",
     "N","O","P","Q","R","S","T","U","V","W","X","Y","Z"}

AsciiDigits == {"0","1","2","3","4","5","6","7","8","9"}

\* The punctuation _ALLOWED_DESC keeps: + # . - / % ( ) : ,
TechPunct == {"+", "#", ".", "-", "/", "%", "(", ")", ":", ","}

\* ---------------------------------------------------------------- values

Null == [kind |-> "null", chars |-> <<>>, n |-> 0]
Str(s) == [kind |-> "str", chars |-> s, n |-> 0]
PyInt(k) == [kind |-> "int", chars |-> <<>>, n |-> k]
PyFloat(k) == [kind |-> "float", chars |-> <<>>, n |-> k]
PyBool(b) == [kind |-> "bool", chars |-> <<>>, n |-> IF b THEN 1 ELSE 0]

\* pd.isna on a scalar.
isna(v) == v.kind = "null"

Digit(d) == CASE d = 0 -> "0" [] d = 1 -> "1" [] d = 2 -> "2" [] d = 3 -> "3"
              [] d = 4 -> "4" [] d = 5 -> "5" [] d = 6 -> "6" [] d = 7 -> "7"
              [] d = 8 -> "8" [] d = 9 -> "9"

RECURSIVE NatStr(_)
NatStr(k) == IF k < 10 THEN <<Digit(k)>> ELSE NatStr(k \div 10) \o <<Digit(k % 10)>>

IntStr(k) == IF k < 0 THEN <<"-">> \o NatStr(-k) ELSE NatStr(k)

\* Python's str(): a str is itself, an int its decimal digits, a float with
\* an integral value k prints as "k.0", a bool as True / False.
py_str(v) ==
    CASE v.kind = "str" -> v.chars
      [] v.kind = "int" -> IntStr(v.n)
      [] v.kind = "float" -> IntStr(v.n) \o <<".", "0">>
      [] v.kind = "bool" -> IF v.n = 1 THEN <<"T","r","u","e">>
                                       ELSE <<"F","a","l","s","e">>
      [] v.kind = "null" -> <<"n","a","n">>

\* ------------------------------------------------------- regular expressions

\* s.replace("\u00a0", " ")
ReplaceNbsp(s) == [i \in 1..Len(s) |-> IF s[i] = NBSP THEN " " ELSE s[i]] \o <<>>

\* The least element of a set of positions, or 0 when it is empty.
Least(S) == IF S = {} THEN 0 ELSE CHOOSE p \in S : \A q \in S : p <= q

\* <[^>]+> matched at position i: the end of the match, or 0.  [^>]+ is
\* greedy and cannot cross a ">", so the match ends at the first ">" after i,
\* and there is none when that ">" is right after the "<".
HtmlMatchEnd(s, i) ==
    IF s[i] # "<" THEN 0
    ELSE LET j == Least({k \in (i + 1)..Len(s) : s[k] = ">"})
         IN IF j >= i + 2 THEN j ELSE 0

\* Whether the characters of p stand in s from position i on.
StartsWith(s, i, p) ==
    /\ i + Len(p) - 1 <= Len(s)
    /\ \A k \in 1..Len(p) : s[i + k - 1] = p[k]

\* The end of the run of non-whitespace characters that starts at p (\S+),
\* or 0 when s[p] is whitespace or p is past the end.
TokenEnd(s, p) ==
    IF p > Len(s) \/ IsSpace(s[p]) THEN 0
    ELSE LET q == Least({k \in p..Len(s) : IsSpace(s[k])})
         IN IF q = 0 THEN Len(s) ELSE q - 1

UrlPrefixes ==
    { <<"h","t","t","p",":","/","/">>,
      <<"h","t","t","p","s",":","/","/">>,
      <<"w","w","w",".">> }

\* (https?://\S+|www\.\S+) matched at position i: the end of the match, or 0.
\* Every alternative ends with a greedy \S+, so a match runs to the end of
\* the token whichever alternative matched.
UrlMatchEnd(s, i) ==
    IF \E p \in UrlPrefixes : StartsWith(s, i, p) /\ TokenEnd(s, i + Len(p)) > 0
    THEN TokenEnd(s, i)
    ELSE 0

\* re.sub(r"<[^>]+>", " ", s): the leftmost matches, none overlapping, each
\* replaced by one space.
RECURSIVE HtmlSubFrom(_, _)
HtmlSubFrom(s, i) ==
    LET m == Least({k \in i..Len(s) : HtmlMatchEnd(s, k) > 0})
    IN IF m = 0 THEN SubSeq(s, i, Len(s))
       ELSE SubSeq(s, i, m - 1) \o <<" ">> \o HtmlSubFrom(s, HtmlMatchEnd(s, m) + 1)

\* _HTML.sub(" ", s), and re.sub(r"<[^>]+>", " ", s) of clean_text.
HtmlSub(s) == HtmlSubFrom(s, 1)

\* The same for _URLS.
RECURSIVE UrlSubFrom(_, _)
UrlSubFrom(s, i) ==
    LET m == Least({k \in i..Len(s) : UrlMatchEnd(s, k) > 0})
    IN IF m = 0 THEN SubSeq(s, i, Len(s))
       ELSE SubSeq(s, i, m - 1) \o <<" ">> \o UrlSubFrom(s, UrlMatchEnd(s, m) + 1)

\* _URLS.sub(" ", s)
UrlSub(s) == UrlSubFrom(s, 1)

\* A faulty variant (\w in place of A-Za-z0-9: any letter), under which C8 fails.
AllowedDescCharWord(c) ==
    c \in AsciiLetters \cup AsciiDigits \cup TechPunct \cup {EACUTE} \/ IsSpace(c)

\* The characters _ALLOWED_DESC does not match.
AllowedDescChar(c) ==
    c \in AsciiLetters \cup AsciiDigits \cup TechPunct \/ IsSpace(c)

\* _ALLOWED_DESC.sub(" ", s)
AllowedSub(s) ==
    [i \in 1..Len(s) |-> IF AllowedDescChar(s[i]) THEN s[i] ELSE " "] \o <<>>

\* _MULTI_SPACE.sub(" ", s): each run of whitespace becomes one space.
MultiSpaceSub(s) ==
    LET marked == [i \in 1..Len(s) |->
                     IF ~IsSpace(s[i]) THEN <<s[i], TRUE>>
                     ELSE <<" ", i = 1 \/ ~IsSpace(s[i - 1])>>]
        kept == SelectSeq(marked, LAMBDA m : m[2])
    IN [i \in 1..Len(kept) |-> kept[i][1]] \o <<>>

\* str.strip(): from the first character that is not whitespace to the last.
Strip(s) ==
    LET a == Least({k \in 1..Len(s) : ~IsSpace(s[k])})
        b == Least({k \in a..Len(s) : \A q \in (k + 1)..Len(s) : IsSpace(s[q])})
    IN IF a = 0 THEN <<>> ELSE SubSeq(s, a, b)

\* ------------------------------------------------------------ normalisers

\* A faulty variant (the tags stripped after the whitespace is normalised),
\* under which C7 fails.
clean_text_reordered(v) ==
    IF isna(v) THEN <<>>
    ELSE HtmlSub(Strip(MultiSpaceSub(ReplaceNbsp(py_str(v)))))

clean_text(v) ==
    IF isna(v) THEN <<>>
    ELSE Strip(MultiSpaceSub(HtmlSub(ReplaceNbsp(py_str(v)))))

\* A faulty variant (no pd.isna guard), under which C6 fails.
clean_description_unguarded(v) ==
    Strip(MultiSpaceSub(AllowedSub(UrlSub(HtmlSub(ReplaceNbsp(py_str(v)))))))

clean_description(v) ==
    IF isna(v) THEN <<>>
    ELSE Strip(MultiSpaceSub(AllowedSub(UrlSub(HtmlSub(ReplaceNbsp(py_str(v)))))))

\* ----------------------------------------------------------- column names

\* A column name is a Python str too: df.columns are stripped as strings.
c_job_id ==
    <<"j","o","b","_","i","d">>
c_title ==
    <<"t","i","t","l","e">>
c_company_id ==
    <<"c","o","m","p","a","n","y","_","i","d">>
c_location ==
    <<"l","o","c","a","t","i","o","n">>
c_description ==
    <<"d","e","s","c","r","i","p","t","i","o","n">>
c_formatted_work_type ==
    <<"f","o","r","m","a","t","t","e","d","_","w","o","r","k","_","t","y","p","e">>
c_remote_allowed ==
    <<"r","e","m","o","t","e","_","a","l","l","o","w","e","d">>
c_formatted_experience_level ==
    <<"f","o","r","m","a","t","t","e","d","_","e","x","p","e","r","i","e","n","c","e","_","l","e","v","e","l">>
c_job_posting_url ==
    <<"j","o","b","_","p","o","s","t","i","n","g","_","u","r","l">>
c_work_type ==
    <<"w","o","r","k","_","t","y","p","e">>
c_experience_level ==
    <<"e","x","p","e","r","i","e","n","c","e","_","l","e","v","e","l">>
c_desc_len ==
    <<"d","e","s","c","_","l","e","n">>
c_desc_sig ==
    <<"d","e","s","c","_","s","i","g">>
c_company_name ==
    <<"c","o","m","p","a","n","y","_","n","a","m","e">>

\* ------------------------------------------------------------ data frames

\* A DataFrame: its column names in order, and its rows in order, each with
\* its index label and one cell per column.
NoFrame == [columns |-> <<>>, rows |-> <<>>]

\* The position of column name among cols, or 0.
ColPos(cols, name) == Least({k \in 1..Len(cols) : cols[k] = name})

\* name in frame.columns
HasCol(frame, name) == ColPos(frame.columns, name) > 0

\* frame[name] at one row.
Cell(frame, row, name) == row.cells[ColPos(frame.columns, name)]

\* frame[name]: the Series of the column, by row position.
Col(frame, name) ==
    [i \in 1..Len(frame.rows) |-> Cell(frame, frame.rows[i], name)] \o <<>>

\* frame[name] = col: the column replaced, or added after the others.
SetCol(frame, name, col) ==
    IF HasCol(frame, name)
    THEN [frame EXCEPT !.rows =
            [i \in 1..Len(frame.rows) |->
                [frame.rows[i] EXCEPT !.cells[ColPos(frame.columns, name)] = col[i]]] \o <<>>]
    ELSE [columns |-> Append(frame.columns, name),
          rows |-> [i \in 1..Len(frame.rows) |->
                      [frame.rows[i] EXCEPT !.cells = Append(@, col[i])]] \o <<>>]

\* The elements of s at the positions in K, in order.
KeepAt(s, K) ==
    LET marked == [i \in 1..Len(s) |-> <<s[i], i \in K>>]
        kept == SelectSeq(marked, LAMBDA m : m[2])
    IN [i \in 1..Len(kept) |-> kept[i][1]] \o <<>>

\* frame[mask]: the rows where the boolean Series mask is True.
Mask(frame, mask) ==
    [frame EXCEPT !.rows = KeepAt(@, {i \in 1..Len(mask) : mask[i]})]

\* frame.drop(columns=names)
DropCols(frame, names) ==
    LET K == {k \in 1..Len(frame.columns) : frame.columns[k] \notin names}
    IN [columns |-> KeepAt(frame.columns, K),
        rows |-> [i \in 1..Len(frame.rows) |->
                    [frame.rows[i] EXCEPT !.cells = KeepAt(@, K)]] \o <<>>]

\* frame.reset_index(drop=True)
ResetIndex(frame) ==
    [frame EXCEPT !.rows =
        [i \in 1..Len(frame.rows) |-> [@[i] EXCEPT !.idx = i - 1]] \o <<>>]

\* Series.map(clean_text), Series.map(clean_description); the results are
\* Python strs.
map_clean_text(col) == [i \in 1..Len(col) |-> Str(clean_text(col[i]))] \o <<>>

map_clean_description(col) ==
    [i \in 1..Len(col) |-> Str(clean_description(col[i]))] \o <<>>

\* Series.fillna(""): a missing cell becomes the empty string.
fillna(col) == [i \in 1..Len(col) |-> IF isna(col[i]) THEN Str(<<>>) ELSE col[i]] \o <<>>

\* Series.str.len()
str_len(col) == [i \in 1..Len(col) |-> PyInt(Len(col[i].chars))] \o <<>>

\* s[:k]
Prefix(s, k) == SubSeq(s, 1, IF Len(s) < k THEN Len(s) ELSE k)

\* Series.str[:k]
str_slice(col, k) == [i \in 1..Len(col) |-> Str(Prefix(col[i].chars, k))] \o <<>>

\* Series.ne("")
ne_empty(col) == [i \in 1..Len(col) |-> col[i] # Str(<<>>)] \o <<>>

\* A faulty variant (> in place of >=), under which C2 fails.
gt(col, k) == [i \in 1..Len(col) |-> col[i].n > k] \o <<>>

\* Series >= k
ge(col, k) == [i \in 1..Len(col) |-> col[i].n >= k] \o <<>>

\* A faulty variant (keep="last"), under which C4 fails.
RECURSIVE LastOccurrences(_, _, _)
LastOccurrences(keys, i, seen) ==
    IF i > Len(keys) THEN {}
    ELSE IF \E j \in (i + 1)..Len(keys) : keys[j] = keys[i]
         THEN LastOccurrences(keys, i + 1, seen)
         ELSE {i} \cup LastOccurrences(keys, i + 1, seen)

\* DataFrame.duplicated(keep="first") negated: the positions whose key was
\* not seen at an earlier position.
RECURSIVE FirstOccurrences(_, _, _)
FirstOccurrences(keys, i, seen) ==
    IF i > Len(keys) THEN {}
    ELSE IF keys[i] \in seen THEN FirstOccurrences(keys, i + 1, seen)
    ELSE {i} \cup FirstOccurrences(keys, i + 1, seen \cup {keys[i]})

\* frame.drop_duplicates(subset=subset)
drop_duplicates(frame, subset) ==
    LET keys == [i \in 1..Len(frame.rows) |->
                    [k \in 1..Len(subset) |-> Cell(frame, frame.rows[i], subset[k])]]
    IN [frame EXCEPT !.rows = KeepAt(@, FirstOccurrences(keys \o <<>>, 1, {}))]

\* ------------------------------------------------------ program constants

\* out["desc_len"] >= 80
MinDescLen == 80

\* out["description"].str[:250]
SigLen == 250

required == <<c_job_id, c_title, c_description>>

\* The columns of the standardized output, in the order of the dict.
OutColumns ==
    <<c_job_id, c_title, c_company_id, c_location, c_description,
      c_work_type, c_remote_allowed, c_experience_level, c_job_posting_url>>

\* The input column each output column is read from.
SourceOf(name) ==
    CASE name = c_work_type -> c_formatted_work_type
      [] name = c_experience_level -> c_formatted_experience_level
      [] OTHER -> name

\* A faulty variant (a missing value in place of ""), under which C10 fails.
ProjectedMissing(frame, row, name) ==
    IF HasCol(frame, SourceOf(name)) THEN Cell(frame, row, SourceOf(name))
    ELSE Null

\* df[name] if name in df.columns else "".  The required columns are read
\* unconditionally; they are present once validation has passed.
Projected(frame, row, name) ==
    IF HasCol(frame, SourceOf(name)) THEN Cell(frame, row, SourceOf(name))
    ELSE Str(<<>>)

\* ------------------------------------------------------------------ state

VARIABLES
    \* The normalisers applied to one value: the value, the position
    \* ("input", "once", "twice") and the results of the first and of the
    \* second application of each normaliser.
    v, tpc, once_text, once_desc, twice_text, twice_desc,
    \* main(): the file at DATA_PATH (header and rows of cells), the position
    \* in main, df, out, the local before, the exception raised, the counts
    \* printed and the file at OUT_PATH.
    csv, pc, df, out, before, error, report, written

tvars == <<v, tpc, once_text, once_desc, twice_text, twice_desc>>

mvars == <<csv, pc, df, out, before, error, report, written>>

vars == <<tvars, mvars>>

NoError == [type |-> "none", missing |-> <<>>, found |-> <<>>]

NoFile == [exists |-> FALSE, columns |-> <<>>, rows |-> <<>>]

NoReport == [raw |-> -1, dropped_quality |-> -1, dropped_dup |-> -1, clean |-> -1]

\* ------------------------------------------------- the normalisers, applied

\* The longest input text, in fragments.
MaxFrags == 4

\* The pieces the input texts are made of: tag brackets, a whole tag, a
\* letter, the three kinds of whitespace, a character outside the allow-list,
\* the URL prefixes.
Frags ==
    { <<"<">>, <<">">>, <<"<", "b", ">">>, <<"a">>, <<" ">>, <<NBSP>>, <<LF>>, <<EACUTE>> }
        \cup UrlPrefixes

RECURSIVE Concat(_)
Concat(fs) == IF fs = <<>> THEN <<>> ELSE Head(fs) \o Concat(Tail(fs))

Texts == { Concat(fs) : fs \in UNION { [1..k -> Frags] : k \in 0..MaxFrags } }

\* The values a cell can hold: missing, numbers, booleans, texts.
Values ==
    {Null, PyInt(0), PyInt(7), PyInt(-12), PyFloat(3), PyBool(TRUE), PyBool(FALSE)}
        \cup { Str(s) : s \in Texts }

MainIdle ==
    /\ csv = [header |-> <<>>, rows |-> <<>>]
    /\ pc = "idle"
    /\ df = NoFrame /\ out = NoFrame
    /\ before = 0
    /\ error = NoError
    /\ report = NoReport
    /\ written = NoFile

TInit ==
    /\ v \in Values
    /\ tpc = "input"
    /\ once_text = <<>> /\ once_desc = <<>>
    /\ twice_text = <<>> /\ twice_desc = <<>>
    /\ MainIdle

\* clean_text(v) and clean_description(v).
ApplyOnce ==
    /\ tpc = "input"
    /\ once_text' = clean_text(v)
    /\ once_desc' = clean_description(v)
    /\ tpc' = "once"
    /\ UNCHANGED <<v, twice_text, twice_desc, mvars>>

\* The normalisers applied to their own results.
ApplyTwice ==
    /\ tpc = "once"
    /\ twice_text' = clean_text(Str(once_text))
    /\ twice_desc' = clean_description(Str(once_desc))
    /\ tpc' = "twice"
    /\ UNCHANGED <<v, once_text, once_desc, mvars>>

TNext == ApplyOnce \/ ApplyTwice

SpecText == TInit /\ [][TNext]_vars

\* --------------------------------------------------------------- main()

\* The most rows of an input table.
MaxRows == 3

\* A header with every column main() reads and one it does not, two of the
\* names padded with whitespace as a CSV header can be.
FullHeader ==
    << c_job_id, <<" ">> \o c_title, c_company_id, c_company_name, c_location,
       c_description \o <<" ", " ">>, c_formatted_work_type, c_remote_allowed,
       c_formatted_experience_level, c_job_posting_url >>

Optional ==
    {c_company_id, c_location, c_formatted_work_type, c_remote_allowed,
     c_formatted_experience_level, c_job_posting_url}

\* The input headers: the full one; without one optional column, without
\* all of them; without one required column, without two.
Headers ==
    LET Missing == { {}, {c_location}, Optional, {c_description}, {c_job_id, c_title} }
    IN { SelectSeq(FullHeader, LAMBDA h : Strip(h) \notin S) : S \in Missing }

Rep(c, k) == [i \in 1..k |-> c]

T_DataAnalyst ==
    <<"D","a","t","a"," ","A","n","a","l","y","s","t">>

T_Remote ==
    <<"R","e","m","o","t","e">>

\* The raw title, location and remote_allowed cells of a row: a clean row, a
\* row that cleans to the same title and location, a row with all three
\* missing.
HeadClean == [title |-> Str(T_DataAnalyst), location |-> Str(T_Remote), remote |-> PyFloat(1)]

HeadDirty ==
    [title |-> Str(<<" ", "<", "b", ">">> \o T_DataAnalyst \o <<"<", "/", "b", ">", NBSP>>),
     location |-> Str(T_Remote \o <<LF>>), remote |-> Null]

HeadBlank == [title |-> Null, location |-> Null, remote |-> Null]

\* The raw description cells: one character short of the minimum once
\* cleaned; exactly the minimum once cleaned; two that agree on their first
\* SigLen characters and differ after.
DescShort == Str(<<"<", "p", ">">> \o Rep("x", MinDescLen - 1) \o <<" ", EACUTE>>)

DescMin == Str(<<NBSP>> \o Rep("x", MinDescLen) \o <<" ">> \o <<"h","t","t","p","s",":","/","/","e",".","c","o","/","a","?","b","=","1">>)

DescLongA == Str(Rep("x", SigLen) \o <<"a">>)

DescLongB == Str(Rep("x", SigLen) \o <<"b">>)

\* The rows an input table is made of, each the head cells and the
\* description cell.
RowInputs ==
    { <<HeadClean, Null>>, <<HeadClean, DescShort>>, <<HeadClean, DescMin>>,
      <<HeadClean, DescLongA>>, <<HeadDirty, DescLongB>>,
      <<HeadBlank, DescLongA>>, <<HeadBlank, DescLongB>> }

\* The cell of the row at position i (from 1) in the column called name.
RawCell(name, i, head, desc) ==
    CASE name = c_job_id -> PyInt(100 + i)
      [] name = c_title -> head.title
      [] name = c_location -> head.location
      [] name = c_remote_allowed -> head.remote
      [] name = c_description -> desc
      [] name = c_company_id -> PyInt(7)
      [] name = c_formatted_work_type -> Str(<<"F","u","l","l","-","t","i","m","e">>)
      [] name = c_formatted_experience_level -> Null
      [] OTHER -> Str(<<"x">>)

Tables ==
    { [header |-> h,
       rows |-> [i \in 1..Len(r) |->
                   [k \in 1..Len(h) |-> RawCell(Strip(h[k]), i, r[i][1], r[i][2])]]] :
        h \in Headers, r \in UNION { [1..n -> RowInputs] : n \in 0..MaxRows } }

TIdle ==
    /\ v = Null
    /\ tpc = "idle"
    /\ once_text = <<>> /\ once_desc = <<>>
    /\ twice_text = <<>> /\ twice_desc = <<>>

Init ==
    /\ csv \in Tables
    /\ pc = "start"
    /\ df = NoFrame /\ out = NoFrame
    /\ before = 0
    /\ error = NoError
    /\ report = NoReport
    /\ written = NoFile
    /\ TIdle

\* A faulty variant (the column names not stripped), under which C5 fails.
LoadUnstripped ==
    /\ pc = "start"
    /\ df' = [columns |-> csv.header,
              rows |-> [i \in 1..Len(csv.rows) |-> [idx |-> i - 1, cells |-> csv.rows[i]]]]
    /\ report' = [report EXCEPT !.raw = Len(csv.rows)]
    /\ pc' = "loaded"
    /\ UNCHANGED <<csv, out, before, error, written, tvars>>

\* 1) pd.read_csv, the column names stripped, "Raw shape" printed.
Load ==
    /\ pc = "start"
    /\ df' = [columns |-> [k \in 1..Len(csv.header) |-> Strip(csv.header[k])],
              rows |-> [i \in 1..Len(csv.rows) |-> [idx |-> i - 1, cells |-> csv.rows[i]]]]
    /\ report' = [report EXCEPT !.raw = Len(csv.rows)]
    /\ pc' = "loaded"
    /\ UNCHANGED <<csv, out, before, error, written, tvars>>

\* 2) The required columns: ValueError when one is missing.
Validate ==
    /\ pc = "loaded"
    /\ LET missing == SelectSeq(required, LAMBDA c : ~HasCol(df, c))
       IN IF missing # <<>>
          THEN /\ error' = [type |-> "ValueError", missing |-> missing,
                            found |-> df.columns]
               /\ pc' = "failed"
          ELSE /\ pc' = "validated"
               /\ UNCHANGED error
    /\ UNCHANGED <<csv, df, out, before, report, written, tvars>>

\* 3) The standardized output.
Project ==
    /\ pc = "validated"
    /\ out' = [columns |-> OutColumns,
               rows |-> [i \in 1..Len(df.rows) |->
                           [idx |-> df.rows[i].idx,
                            cells |-> [k \in 1..Len(OutColumns) |->
                                          Projected(df, df.rows[i], OutColumns[k])]]]]
    /\ pc' = "projected"
    /\ UNCHANGED <<csv, df, before, error, report, written, tvars>>

\* 4) and 5): the text fields cleaned, remote_allowed filled.
CleanFrame(frame) ==
    LET f1 == SetCol(frame, c_title, map_clean_text(Col(frame, c_title)))
        f2 == SetCol(f1, c_location, map_clean_text(Col(f1, c_location)))
        f3 == SetCol(f2, c_work_type, map_clean_text(Col(f2, c_work_type)))
        f4 == SetCol(f3, c_experience_level, map_clean_text(Col(f3, c_experience_level)))
        f5 == SetCol(f4, c_job_posting_url, map_clean_text(Col(f4, c_job_posting_url)))
        f6 == SetCol(f5, c_description, map_clean_description(Col(f5, c_description)))
    IN SetCol(f6, c_remote_allowed, fillna(Col(f6, c_remote_allowed)))

Clean ==
    /\ pc = "projected"
    /\ out' = CleanFrame(out)
    /\ pc' = "cleaned"
    /\ UNCHANGED <<csv, df, before, error, report, written, tvars>>

\* out[out["description"].ne("")]
DropEmpty(frame) == Mask(frame, ne_empty(Col(frame, c_description)))

\* out[out["desc_len"] >= 80]
DropShort(frame) == Mask(frame, ge(Col(frame, c_desc_len), MinDescLen))

\* A faulty variant (before taken after the empty descriptions are dropped),
\* under which C1 fails.
FilterLateBefore ==
    /\ pc = "cleaned"
    /\ LET lens == SetCol(out, c_desc_len, str_len(Col(out, c_description)))
           nonempty == DropEmpty(lens)
           kept == DropShort(nonempty)
       IN /\ before' = Len(nonempty.rows)
          /\ out' = kept
          /\ report' = [report EXCEPT !.dropped_quality = Len(nonempty.rows) - Len(kept.rows)]
    /\ pc' = "filtered"
    /\ UNCHANGED <<csv, df, error, written, tvars>>

\* 6) Empty and too-short descriptions dropped, the count printed.
Filter ==
    /\ pc = "cleaned"
    /\ LET lens == SetCol(out, c_desc_len, str_len(Col(out, c_description)))
           kept == DropShort(DropEmpty(lens))
       IN /\ before' = Len(lens.rows)
          /\ out' = kept
          /\ report' = [report EXCEPT !.dropped_quality = Len(lens.rows) - Len(kept.rows)]
    /\ pc' = "filtered"
    /\ UNCHANGED <<csv, df, error, written, tvars>>

\* A faulty variant (the whole description in place of its prefix), under
\* which C3 fails.
DupSubsetWhole == <<c_title, c_location, c_description>>

\* The subset of columns a duplicate is decided on.
DupSubset == <<c_title, c_location, c_desc_sig>>

\* 7) Duplicates dropped, the count printed.
Dedupe ==
    /\ pc = "filtered"
    /\ LET sigs == SetCol(out, c_desc_sig, str_slice(Col(out, c_description), SigLen))
           kept == drop_duplicates(sigs, DupSubset)
       IN /\ before' = Len(sigs.rows)
          /\ out' = kept
          /\ report' = [report EXCEPT !.dropped_dup = Len(sigs.rows) - Len(kept.rows)]
    /\ pc' = "deduped"
    /\ UNCHANGED <<csv, df, error, written, tvars>>

\* 8) The helper columns dropped, the index reset, the file written, "Clean
\* shape" printed.
Save ==
    /\ pc = "deduped"
    /\ LET final == ResetIndex(DropCols(out, {c_desc_len, c_desc_sig}))
       IN /\ out' = final
          /\ written' = [exists |-> TRUE, columns |-> final.columns,
                         rows |-> [i \in 1..Len(final.rows) |-> final.rows[i].cells]]
          /\ report' = [report EXCEPT !.clean = Len(final.rows)]
    /\ pc' = "saved"
    /\ UNCHANGED <<csv, df, before, error, tvars>>

Next == Load \/ Validate \/ Project \/ Clean \/ Filter \/ Dedupe \/ Save

Spec == Init /\ [][Next]_vars

\* ------------------------------------------------------------ properties

\* What the properties of main() speak of: the input rows by position, the
\* output rows by position, and the cleaned fields of an input row.
InputRows == 1..Len(csv.rows)

OutputRows == 1..Len(written.rows)

InputCell(i, name) == Cell(df, df.rows[i], name)

OutputCell(r, name) == written.rows[r][ColPos(written.columns, name)]

CleanedTitle(i) == clean_text(InputCell(i, c_title))

CleanedLocation(i) ==
    IF HasCol(df, c_location) THEN clean_text(InputCell(i, c_location)) ELSE <<>>

CleanedDescription(i) == clean_description(InputCell(i, c_description))

\* The duplicate signature of an input row and of an output row.
Signature(i) == <<CleanedTitle(i), CleanedLocation(i), Prefix(CleanedDescription(i), 250)>>

OutputSignature(r) ==
    <<OutputCell(r, c_title).chars, OutputCell(r, c_location).chars,
      Prefix(OutputCell(r, c_description).chars, 250)>>

\* Whether input row i is among the output rows (job_id is unique per row).
InOutput(i) == \E r \in OutputRows : OutputCell(r, c_job_id) = InputCell(i, c_job_id)

\* C1: after a full run the output has no more rows than the input, and the
\* rows reported dropped by the quality filter, the rows reported dropped as
\* duplicates and the output rows add up to the input rows.
C1_MonotonicFiltering ==
    pc = "saved" =>
        /\ Len(written.rows) <= Len(csv.rows)
        /\ report.dropped_quality + report.dropped_dup + Len(written.rows) = Len(csv.rows)

\* A run in which the filter dropped a row, the collapse dropped a row and a
\* row was written.
C1_Witness ==
    /\ pc = "saved"
    /\ report.dropped_quality > 0
    /\ report.dropped_dup > 0
    /\ Len(written.rows) > 0

\* C2: every output record has a cleaned description of at least 80
\* characters (so not empty); every input row whose cleaned description is
\* shorter is absent from the output, and the quality filter's count is the
\* number of those rows, whatever their other fields.
C2_QualityFilter ==
    pc = "saved" =>
        LET short == {i \in InputRows : Len(CleanedDescription(i)) < 80}
        IN /\ \A r \in OutputRows :
                /\ OutputCell(r, c_description) # Str(<<>>)
                /\ Len(OutputCell(r, c_description).chars) >= 80
           /\ \A i \in short : ~InOutput(i)
           /\ report.dropped_quality = Cardinality(short)

\* A run with a row whose raw description is longer than 80 characters and
\* whose cleaned one has 79, a row with no description, and an output row
\* whose description has exactly 80.
C2_Witness ==
    /\ pc = "saved"
    /\ \E i \in InputRows :
          /\ Len(CleanedDescription(i)) = 79
          /\ Len(InputCell(i, c_description).chars) > 80
    /\ \E i \in InputRows : isna(InputCell(i, c_description))
    /\ \E r \in OutputRows : Len(OutputCell(r, c_description).chars) = 80

\* C3: any two distinct output records differ in their signature (cleaned
\* title, cleaned location, first 250 characters of the cleaned description).
C3_UniqueSignatures ==
    pc = "saved" =>
        \A r, s \in OutputRows : r # s => OutputSignature(r) # OutputSignature(s)

\* A run in which two rows with a blank title and a blank location shared a
\* signature, one of them was written, and so was a third row.
C3_Witness ==
    /\ pc = "saved"
    /\ Len(written.rows) = 2
    /\ \E i, j \in InputRows :
          /\ i < j
          /\ isna(InputCell(i, c_title)) /\ isna(InputCell(j, c_title))
          /\ InputCell(i, c_description) # InputCell(j, c_description)
          /\ Signature(i) = Signature(j)
    /\ \E r \in OutputRows :
          OutputCell(r, c_title) = Str(<<>>) /\ OutputCell(r, c_location) = Str(<<>>)

\* C4: an input row is written exactly when it passes the quality filter and
\* no earlier row that passes it has its signature; the output rows are in
\* input order.
C4_FirstOccurrenceKept ==
    pc = "saved" =>
        LET desc == [i \in InputRows |-> CleanedDescription(i)] \o <<>>
            sig == [i \in InputRows |->
                      <<CleanedTitle(i), CleanedLocation(i), Prefix(desc[i], 250)>>] \o <<>>
            passes == {i \in InputRows : Len(desc[i]) >= 80}
        IN /\ \A i \in InputRows :
                InOutput(i) <=>
                    /\ i \in passes
                    /\ \A j \in passes : j < i => sig[j] # sig[i]
           /\ \A r, s \in OutputRows :
                r < s => OutputCell(r, c_job_id).n < OutputCell(s, c_job_id).n

\* A run with three rows: the first and the last have the same title and
\* location and descriptions that agree on 250 characters and differ after,
\* the middle one another signature; the first two are written.
C4_Witness ==
    /\ pc = "saved"
    /\ Len(csv.rows) = 3
    /\ CleanedTitle(1) = CleanedTitle(3) /\ CleanedLocation(1) = CleanedLocation(3)
    /\ CleanedDescription(1) # CleanedDescription(3)
    /\ Signature(1) = Signature(3)
    /\ Signature(2) # Signature(1)
    /\ InOutput(1) /\ InOutput(2) /\ ~InOutput(3)

\* The required columns missing from the header, names compared once
\* stripped.
MissingRequired ==
    LET found == {Strip(csv.header[k]) : k \in 1..Len(csv.header)}
    IN SelectSeq(required, LAMBDA c : c \notin found)

\* C5: a run fails exactly when a required column is missing from the
\* stripped header; it fails at validation with an error that lists the
\* missing columns and the columns found, before anything is projected,
\* cleaned, filtered, collapsed or written.
C5_SchemaError ==
    /\ (pc \notin {"start", "loaded"} /\ MissingRequired # <<>>) => pc = "failed"
    /\ pc = "failed" =>
          /\ MissingRequired # <<>>
          /\ error = [type |-> "ValueError", missing |-> MissingRequired,
                      found |-> [k \in 1..Len(csv.header) |-> Strip(csv.header[k])]]
          /\ out = NoFrame
          /\ written = NoFile
          /\ report.dropped_quality = -1 /\ report.dropped_dup = -1 /\ report.clean = -1
    /\ pc # "failed" => error = NoError

\* A failed run over a table with rows and two required columns missing.
C5_Witness ==
    /\ pc = "failed"
    /\ Len(error.missing) = 2
    /\ Len(csv.rows) > 0

\* The nine fields of a canonical record.
CanonicalFields ==
    {c_job_id, c_title, c_location, c_work_type, c_experience_level,
     c_job_posting_url, c_company_id, c_description, c_remote_allowed}

\* The input column of each optional canonical field.
OptionalSource ==
    { <<c_company_id, c_company_id>>, <<c_location, c_location>>,
      <<c_work_type, c_formatted_work_type>>, <<c_remote_allowed, c_remote_allowed>>,
      <<c_experience_level, c_formatted_experience_level>>,
      <<c_job_posting_url, c_job_posting_url>> }

\* C10: a run over a table with the required columns is saved whatever
\* optional columns are absent; the output has exactly the nine canonical
\* fields; a field whose optional column is absent is the empty string in
\* every output record, and so is remote_allowed where the input cell is
\* missing.
C10_OptionalColumns ==
    /\ (pc = "validated" \/ pc = "projected" \/ pc = "cleaned") => error = NoError
    /\ pc = "saved" =>
          /\ Len(written.columns) = 9
          /\ {written.columns[k] : k \in 1..Len(written.columns)} = CanonicalFields
          /\ \A r \in OutputRows : Len(written.rows[r]) = 9
          /\ \A fs \in OptionalSource :
                ~HasCol(df, fs[2]) =>
                    \A r \in OutputRows : OutputCell(r, fs[1]) = Str(<<>>)
          /\ HasCol(df, c_remote_allowed) =>
                \A i \in InputRows, r \in OutputRows :
                    /\ OutputCell(r, c_job_id) = InputCell(i, c_job_id)
                    /\ isna(InputCell(i, c_remote_allowed))
                    => OutputCell(r, c_remote_allowed) = Str(<<>>)

\* A saved run over a table without any optional column, with an output row.
C10_Witness ==
    /\ pc = "saved"
    /\ \A fs \in OptionalSource : ~HasCol(df, fs[2])
    /\ Len(written.rows) > 0

\* C6, as stated: a missing or non-string input gives the empty string from
\* both normalisers.
C6_AsStated ==
    (tpc = "once" /\ v.kind # "str") => (once_text = <<>> /\ once_desc = <<>>)

\* C6, amended: a missing input gives the empty string from both
\* normalisers; a number or a boolean gives its text, str(v), which is not
\* empty.
C6_Totality ==
    tpc = "once" =>
        /\ isna(v) => (once_text = <<>> /\ once_desc = <<>>)
        /\ v.kind \in {"int", "float", "bool"} =>
              /\ once_text = py_str(v) /\ once_desc = py_str(v)
              /\ once_text # <<>>

\* A boolean, normalised to its text.
C6_Witness ==
    /\ tpc = "once"
    /\ v = PyBool(TRUE)
    /\ once_text = <<"T", "r", "u", "e">> /\ once_desc = <<"T", "r", "u", "e">>

\* C7: a normaliser applied to its own result leaves it as it is.
C7_Idempotence ==
    tpc = "twice" => (twice_text = once_text /\ twice_desc = once_desc)

\* A text with a tag and a URL that both normalisers changed, normalised
\* twice.
C7_Witness ==
    /\ tpc = "twice"
    /\ v.kind = "str"
    /\ \E i \in 1..Len(v.chars) : HtmlMatchEnd(v.chars, i) > 0
    /\ \E i \in 1..Len(v.chars) : UrlMatchEnd(v.chars, i) > 0
    /\ once_text # v.chars /\ once_desc # v.chars /\ once_desc # once_text
    /\ once_desc # <<>>

\* C8: every character of clean_description's result is an ASCII letter, an
\* ASCII digit, one of + # . - / % ( ) : , or an ASCII space; the result
\* neither starts nor ends with a space and has no two spaces in a row.
C8_AllowListClosure ==
    tpc = "once" =>
        /\ \A i \in 1..Len(once_desc) :
              once_desc[i] \in AsciiLetters \cup AsciiDigits \cup TechPunct \cup {" "}
        /\ once_desc # <<>> => (once_desc[1] # " " /\ once_desc[Len(once_desc)] # " ")
        /\ \A i \in 1..(Len(once_desc) - 1) : ~(once_desc[i] = " " /\ once_desc[i + 1] = " ")

\* A text with a character outside the allow-list between two letters and a
\* non-breaking space at its end, normalised.
C8_Witness ==
    /\ tpc = "once"
    /\ v = Str(<<"a", EACUTE, "a", NBSP>>)
    /\ once_desc = <<"a", " ", "a">>

\* Whether a URL prefix (http://, https://, www.) stands somewhere in s.
HasUrlPrefix(s) == \E i \in 1..Len(s), p \in UrlPrefixes : StartsWith(s, i, p)

\* Whether every URL prefix in s starts a URL token: a non-whitespace
\* character follows it.
UrlPrefixesStartTokens(s) ==
    \A i \in 1..Len(s), p \in UrlPrefixes :
        StartsWith(s, i, p) => TokenEnd(s, i + Len(p)) > 0

\* C9: the result of clean_description on a text whose URL prefixes all start
\* URL tokens holds no tag and no URL prefix.
C9_NoRawMarkup ==
    (tpc = "once" /\ v.kind = "str" /\ UrlPrefixesStartTokens(v.chars)) =>
        /\ \A i \in 1..Len(once_desc) : HtmlMatchEnd(once_desc, i) = 0
        /\ ~HasUrlPrefix(once_desc)

====
